---- MODULE Spec2Model ----
(***************************************************************************)
(* Line search of neupy/algorithms/steps/linear_search.py:                 *)
(*   interval_location, golden_search, fmin_golden_search and              *)
(*   LinearSearch.train_epoch.                                             *)
(*                                                                         *)
(* Numbers.  The steps handled by golden_search are sums and products of   *)
(* maxstep and golden_ratio = (sqrt(5) - 1) / 2.  They are kept exactly,   *)
(* as pairs <<p, q>> standing for the real number p + q * golden_ratio     *)
(* (golden_ratio ^ 2 = 1 - golden_ratio closes the pairs under the         *)
(* products the code takes).  Steps are drawn from the even integers, so   *)
(* that the midpoint (a + b) / 2 is a pair of integers again.              *)
(*                                                                         *)
(* Objective outputs are floats: small finite integers and the three       *)
(* non-finite values, ordered as IEEE 754 orders them (every comparison    *)
(* with NaN is false).                                                     *)
(***************************************************************************)
EXTENDS Integers, Sequences, FiniteSets

VARIABLES
    pc,                 \* position of the numeric routine
    minstep, maxstep,   \* arguments of fmin_golden_search / interval_location
    maxiter, tol,
    f,                  \* the objective
    prev_func_output,   \* scan state of interval_location
    step,
    n_loc,              \* iterations of interval_location's scan done
    stop_loc,           \* its until-condition has fired
    bound,              \* value interval_location returned
    a, b, c, d,         \* scan state of golden_search (the bracket)
    n_gold,             \* iterations of golden_search's scan done
    stop_gold,          \* its until-condition has fired
    best_step,          \* value golden_search returned
    err,                \* parameter the ValueError names, "none" without one
    nevals,             \* number of evaluations of f so far
    tpc,                \* position of LinearSearch.train_epoch
    params,             \* live values of the trainable parameters
    param_defaults,     \* snapshot taken at the start of train_epoch
    shared_step,        \* self.variables.step
    new_step,           \* argument of the running setup_new_step call
    error,              \* error measured by the running / last call
    ret,                \* value the last setup_new_step call returned
    updates,            \* training updates applied by the running / last call
    trials,             \* calls of setup_new_step the minimizer has made
    committing,         \* the running call is the one of line 255
    res_x,              \* res.x of minimize_scalar
    result              \* value train_epoch returned

numvars == <<pc, minstep, maxstep, maxiter, tol, f, prev_func_output, step,
             n_loc, stop_loc, bound, a, b, c, d, n_gold, stop_gold,
             best_step, err, nevals>>

trainvars == <<tpc, params, param_defaults, shared_step, new_step, error, ret,
               updates, trials, committing, res_x, result>>

vars == <<numvars, trainvars>>

---------------------------------------------------------------------------
\* Bounds of the model.

\* steps are 2 * k for k up to MaxHalfStep
MaxHalfStep == 8
\* largest maxiter
MaxIter == 3
\* largest tol
MaxTol == 1
\* finite objective outputs are 0 .. MaxVal
MaxVal == 2

---------------------------------------------------------------------------
\* Floats.

PosInf == 1000
NegInf == 0 - PosInf
NaN == 2000

Finite == 0 .. MaxVal

\* T.lt / T.gt on floats
FLt(x, y) == x # NaN /\ y # NaN /\ x < y
FGt(x, y) == FLt(y, x)

---------------------------------------------------------------------------
\* Exact numbers p + q * golden_ratio.

Num(n) == <<n, 0>>
Add(x, y) == <<x[1] + y[1], x[2] + y[2]>>
Sub(x, y) == <<x[1] - y[1], x[2] - y[2]>>
Times(k, x) == <<k * x[1], k * x[2]>>

\* x > 0:  p + q * golden_ratio = ((2p - q) + q * sqrt(5)) / 2
Pos(x) ==
    LET u == 2 * x[1] - x[2]
        v == x[2]
    IN  IF u >= 0 /\ v >= 0 THEN u + v > 0
        ELSE IF u <= 0 /\ v <= 0 THEN FALSE
        ELSE IF u > 0 THEN u * u > 5 * v * v
        ELSE 5 * v * v > u * u

Lt(x, y) == Pos(Sub(y, x))
Le(x, y) == ~Lt(y, x)
Abs(x) == IF Pos(x) THEN x ELSE Sub(Num(0), x)
Half(x) == <<x[1] \div 2, x[2] \div 2>>

\* golden_ratio * x
golden_ratio(x) == <<x[2], x[1] - x[2]>>

---------------------------------------------------------------------------
\* The objective f.  kind "table": an arbitrary function, given by its
\* outputs on the steps interval_location can reach; its outputs at the
\* interior points of golden_search are free, each iteration of golden_search
\* evaluating one point never evaluated before (the points are irrational
\* multiples of the bound, the steps of interval_location are integers).
\* kind "convex": f(x) = |x - m|, which orders any two points as
\* (x - m) ^ 2 does.

Minimum(x, y) == IF x < y THEN x ELSE y

RECURSIVE Reach(_, _)
Reach(s, hi) == IF s >= hi THEN {hi} ELSE {s} \cup Reach(Minimum(2 * s, hi), hi)

\* steps interval_location(f, lo, hi, .) can evaluate f at
Grid(lo, hi) == IF lo > 0 /\ lo < hi THEN Reach(lo, hi) ELSE {}

Vals == Finite \cup {PosInf, NaN}

Tables(lo, hi) ==
    {[kind |-> "table", tab |-> t, m |-> 0] : t \in [Grid(lo, hi) -> Vals]}

Convex(hi) == {[kind |-> "convex", tab |-> <<>>, m |-> k] : k \in 0 .. hi}

\* f(step), step an integer
Eval(s) ==
    IF f.kind = "table" THEN f.tab[s]
    ELSE IF s >= f.m THEN s - f.m ELSE f.m - s

\* lt is an outcome T.lt(f(x), f(y)) can have
FcLtFd(lt, x, y) ==
    f.kind = "convex" =>
        lt = Lt(Abs(Sub(x, Num(f.m))), Abs(Sub(y, Num(f.m))))

---------------------------------------------------------------------------
\* theano.scan(fn, n_steps = maxiter) with an until-condition: the loop runs
\* while fewer than n_steps iterations are done and the condition has not fired.

ScanOffByOne(n, n_steps, stopped) == n < n_steps + 1 /\ ~stopped

ScanContinues(n, n_steps, stopped) == n < n_steps /\ ~stopped

---------------------------------------------------------------------------
\* fmin_golden_search: validation.

fmin_params ==
    << <<"maxiter", maxiter>>, <<"minstep", minstep>>,
       <<"maxstep", maxstep>>, <<"tol", tol>> >>

RejectsNegativeOnly(v) == v < 0

\* param_value <= 0
Rejected(v) == v <= 0

\* name in the first ValueError the loop of lines 145-148 raises
FirstRejected ==
    LET bad == {i \in 1 .. 4 : Rejected(fmin_params[i][2])}
    IN  IF bad = {} THEN "none"
        ELSE fmin_params[CHOOSE i \in bad : \A j \in bad : i <= j][1]

\* golden_search, lines 102-105: the first bracket <<a, b, c, d>>
GoldenStart(ms) ==
    LET a0 == Num(0)
        b0 == Num(ms)
    IN  <<a0, b0, Sub(b0, golden_ratio(Sub(b0, a0))),
          Add(a0, golden_ratio(Sub(b0, a0)))>>

fmin_golden_search ==
    /\ pc = "start"
    /\ IF FirstRejected # "none"
         THEN /\ pc' = "error"
              /\ err' = FirstRejected
              /\ UNCHANGED <<prev_func_output, step, n_loc, stop_loc>>
         ELSE IF minstep >= maxstep
         THEN /\ pc' = "error"
              /\ err' = "minstep >= maxstep"
              /\ UNCHANGED <<prev_func_output, step, n_loc, stop_loc>>
         ELSE /\ pc' = "locate"
              /\ err' = "none"
              /\ prev_func_output' = PosInf
              /\ step' = minstep
              /\ n_loc' = 0
              /\ stop_loc' = FALSE
    /\ UNCHANGED <<minstep, maxstep, maxiter, tol, f, bound, a, b, c, d,
                   n_gold, stop_gold, best_step, nevals>>
    /\ UNCHANGED trainvars

---------------------------------------------------------------------------
\* interval_location.

UncappedStep(s, ms) == 2 * s

\* T.minimum(2. * step, maxstep)
DoubledStep(s, ms) == Minimum(2 * s, ms)

IncreaseSwapped(prev, cur) == FLt(cur, prev)

\* is_output_increse = T.lt(prev_func_output, func_output)
IsOutputIncrease(prev, cur) == FLt(prev, cur)

find_right_bound ==
    /\ pc = "locate"
    /\ ScanContinues(n_loc, maxiter, stop_loc)
    /\ LET func_output == Eval(step)
           is_output_decrease == FGt(prev_func_output, func_output)
           nstep == IF is_output_decrease THEN DoubledStep(step, maxstep)
                    ELSE step
       IN  /\ prev_func_output' = func_output
           /\ step' = nstep
           /\ stop_loc' = (IsOutputIncrease(prev_func_output, func_output)
                           \/ nstep > maxstep)
    /\ n_loc' = n_loc + 1
    /\ nevals' = nevals + 1
    /\ UNCHANGED <<pc, minstep, maxstep, maxiter, tol, f, bound, a, b, c, d,
                   n_gold, stop_gold, best_step, err>>
    /\ UNCHANGED trainvars

\* return steps[-1], and the start of golden_search(f, maxstep, maxiter, tol)
\* on the value returned (lines 153-154)
interval_location ==
    /\ pc = "locate"
    /\ ~ScanContinues(n_loc, maxiter, stop_loc)
    /\ bound' = step
    /\ LET g == GoldenStart(step)
       IN  /\ a' = g[1]
           /\ b' = g[2]
           /\ c' = g[3]
           /\ d' = g[4]
    /\ n_gold' = 0
    /\ stop_gold' = FALSE
    /\ pc' = "golden"
    /\ UNCHANGED <<minstep, maxstep, maxiter, tol, f, prev_func_output, step,
                   n_loc, stop_loc, best_step, err, nevals>>
    /\ UNCHANGED trainvars

---------------------------------------------------------------------------
\* golden_search.

ReductionSwapped(lt, xa, xb, xc, xd) ==
    IF ~lt
    THEN <<xa, xd, Sub(xd, golden_ratio(Sub(xd, xa))), xc>>
    ELSE <<xc, xb, xd, Add(xc, golden_ratio(Sub(xb, xc)))>>

\* the ifelse of lines 91-95, lt the value of T.lt(fc, fd)
Reduction(lt, xa, xb, xc, xd) ==
    IF lt
    THEN <<xa, xd, Sub(xd, golden_ratio(Sub(xd, xa))), xc>>
    ELSE <<xc, xb, xd, Add(xc, golden_ratio(Sub(xb, xc)))>>

MidpointNotHalved(xa, xb) == Add(xa, xb)

\* (a[-1] + b[-1]) / 2
Midpoint(xa, xb) == Half(Add(xa, xb))

interval_reduction ==
    /\ pc = "golden"
    /\ ScanContinues(n_gold, maxiter, stop_gold)
    /\ \E lt \in BOOLEAN :
         /\ FcLtFd(lt, c, d)
         /\ LET r == Reduction(lt, a, b, c, d)
            IN  /\ a' = r[1]
                /\ b' = r[2]
                /\ c' = r[3]
                /\ d' = r[4]
                /\ stop_gold' = Lt(Abs(Sub(r[3], r[4])), Num(tol))
    /\ n_gold' = n_gold + 1
    /\ nevals' = nevals + 2
    /\ UNCHANGED <<pc, minstep, maxstep, maxiter, tol, f, prev_func_output,
                   step, n_loc, stop_loc, bound, best_step, err>>
    /\ UNCHANGED trainvars

golden_search ==
    /\ pc = "golden"
    /\ ~ScanContinues(n_gold, maxiter, stop_gold)
    /\ best_step' = Midpoint(a, b)
    /\ pc' = "done"
    /\ UNCHANGED <<minstep, maxstep, maxiter, tol, f, prev_func_output, step,
                   n_loc, stop_loc, bound, a, b, c, d, n_gold, stop_gold,
                   err, nevals>>
    /\ UNCHANGED trainvars

---------------------------------------------------------------------------
\* Specifications of the numeric routines.

StepVals == {2 * k : k \in (0 - 1) .. MaxHalfStep}

TrainIdle ==
    /\ tpc = "off"
    /\ params = <<>>
    /\ param_defaults = <<>>
    /\ shared_step = 0
    /\ new_step = 0
    /\ error = 0
    /\ ret = 0
    /\ updates = 0
    /\ trials = 0
    /\ committing = FALSE
    /\ res_x = 0
    /\ result = 0

ScanIdle ==
    /\ prev_func_output = PosInf
    /\ step = 0
    /\ n_loc = 0
    /\ stop_loc = FALSE
    /\ n_gold = 0
    /\ stop_gold = FALSE
    /\ best_step = Num(0)
    /\ err = "none"
    /\ nevals = 0

\* a call fmin_golden_search(f, minstep, maxstep, maxiter, tol)
Init ==
    /\ pc = "start"
    /\ minstep \in StepVals
    /\ maxstep \in StepVals
    /\ maxiter \in (0 - 1) .. MaxIter
    /\ tol \in (0 - 1) .. MaxTol
    /\ f \in Tables(minstep, maxstep)
    /\ bound = 0
    /\ a = Num(0)
    /\ b = Num(0)
    /\ c = Num(0)
    /\ d = Num(0)
    /\ ScanIdle
    /\ TrainIdle

Next ==
    \/ fmin_golden_search
    \/ find_right_bound
    \/ interval_location
    \/ interval_reduction
    \/ golden_search

Spec == Init /\ [][Next]_vars

\* a call golden_search(f, maxstep, maxiter, tol) on a convex objective
InitGolden ==
    /\ pc = "golden"
    /\ minstep = 0
    /\ maxstep \in {s \in StepVals : s > 0}
    /\ maxiter \in 1 .. MaxIter
    /\ tol \in 1 .. MaxTol
    /\ f \in Convex(maxstep)
    /\ bound = maxstep
    /\ LET g == GoldenStart(maxstep)
       IN  /\ a = g[1]
           /\ b = g[2]
           /\ c = g[3]
           /\ d = g[4]
    /\ ScanIdle
    /\ TrainIdle

NextGolden ==
    \/ interval_reduction
    \/ golden_search

SpecGolden == InitGolden /\ [][NextGolden]_vars

---------------------------------------------------------------------------
\* LinearSearch.train_epoch.  The minimizer (scipy's minimize_scalar) is a
\* black box: it calls the objective setup_new_step any number of times, at
\* steps of its choice, and returns any step as res.x.

\* number of trainable parameters
NParams == 2
\* initial parameter values are 0 .. MaxWeight
MaxWeight == 1
\* the minimizer tries the steps 0 .. MaxTrialStep
MaxTrialStep == 2
\* the minimizer makes at most MaxTrials calls of the objective
MaxTrials == 2

TrialSteps == 0 .. MaxTrialStep

\* outputs of self.methods.prediction_error
ErrVals == Finite \cup {PosInf, NegInf, NaN}

\* self.methods.train_epoch: one gradient update of every parameter with the
\* shared step, the gradient depending on the parameter's current value
TrainUpdate(w, s) == [i \in DOMAIN w |-> w[i] - s * (w[i] + i)]

ResetSkipped(w, defaults) == w

\* for param_default, param in zip(...): param.set_value(param_default)
ResetParams(w, defaults) == defaults

StepNotSet(old, new) == old

\* self.variables.step.set_value(new_step)
SetStep(old, new) == new

\* np.where(np.isnan(error), np.inf, error)
NanToInf(e) == IF e = NaN THEN PosInf ELSE e

\* lines 231-236: the snapshot
train_epoch ==
    /\ tpc = "start"
    /\ param_defaults' = params
    /\ tpc' = "minimize"
    /\ UNCHANGED <<params, shared_step, new_step, error, ret, updates, trials,
                   committing, res_x, result>>
    /\ UNCHANGED numvars

\* minimize_scalar calls setup_new_step(new_step) for a trial
minimize_scalar_trial ==
    /\ tpc = "minimize"
    /\ trials < MaxTrials
    /\ \E s \in TrialSteps : new_step' = s
    /\ trials' = trials + 1
    /\ updates' = 0
    /\ committing' = FALSE
    /\ tpc' = "reset"
    /\ UNCHANGED <<params, param_defaults, shared_step, error, ret, res_x,
                   result>>
    /\ UNCHANGED numvars

\* minimize_scalar returns res; line 255 calls setup_new_step(res.x)
minimize_scalar ==
    /\ tpc = "minimize"
    /\ \E s \in TrialSteps :
         /\ res_x' = s
         /\ new_step' = s
    /\ updates' = 0
    /\ committing' = TRUE
    /\ tpc' = "reset"
    /\ UNCHANGED <<params, param_defaults, shared_step, error, ret, trials,
                   result>>
    /\ UNCHANGED numvars

\* setup_new_step, lines 239-240
setup_new_step_reset ==
    /\ tpc = "reset"
    /\ params' = ResetParams(params, param_defaults)
    /\ tpc' = "set_step"
    /\ UNCHANGED <<param_defaults, shared_step, new_step, error, ret, updates,
                   trials, committing, res_x, result>>
    /\ UNCHANGED numvars

\* setup_new_step, line 242
setup_new_step_set_value ==
    /\ tpc = "set_step"
    /\ shared_step' = SetStep(shared_step, new_step)
    /\ tpc' = "train"
    /\ UNCHANGED <<params, param_defaults, new_step, error, ret, updates,
                   trials, committing, res_x, result>>
    /\ UNCHANGED numvars

\* setup_new_step, line 243
setup_new_step_train ==
    /\ tpc = "train"
    /\ params' = TrainUpdate(params, shared_step)
    /\ updates' = updates + 1
    /\ tpc' = "measure"
    /\ UNCHANGED <<param_defaults, shared_step, new_step, error, ret, trials,
                   committing, res_x, result>>
    /\ UNCHANGED numvars

\* setup_new_step, lines 244-246: the error measured and the value returned,
\* to the minimizer or (line 255) as the value of train_epoch
setup_new_step ==
    /\ tpc = "measure"
    /\ \E e \in ErrVals :
         /\ error' = e
         /\ ret' = NanToInf(e)
         /\ IF committing
              THEN /\ result' = NanToInf(e)
                   /\ tpc' = "returned"
              ELSE /\ result' = result
                   /\ tpc' = "minimize"
    /\ UNCHANGED <<params, param_defaults, shared_step, new_step, updates,
                   trials, committing, res_x>>
    /\ UNCHANGED numvars

NumIdle ==
    /\ pc = "off"
    /\ minstep = 0
    /\ maxstep = 0
    /\ maxiter = 0
    /\ tol = 0
    /\ f = [kind |-> "table", tab |-> <<>>, m |-> 0]
    /\ bound = 0
    /\ a = Num(0)
    /\ b = Num(0)
    /\ c = Num(0)
    /\ d = Num(0)
    /\ ScanIdle

\* a call train_epoch(input_train, target_train)
InitTrain ==
    /\ tpc = "start"
    /\ params \in [1 .. NParams -> 0 .. MaxWeight]
    /\ param_defaults = [i \in 1 .. NParams |-> 0]
    /\ shared_step \in TrialSteps
    /\ new_step = 0
    /\ error = 0
    /\ ret = 0
    /\ updates = 0
    /\ trials = 0
    /\ committing = FALSE
    /\ res_x = 0
    /\ result = 0
    /\ NumIdle

NextTrain ==
    \/ train_epoch
    \/ minimize_scalar_trial
    \/ minimize_scalar
    \/ setup_new_step_reset
    \/ setup_new_step_set_value
    \/ setup_new_step_train
    \/ setup_new_step

SpecTrain == InitTrain /\ [][NextTrain]_vars

---------------------------------------------------------------------------
\* Properties of LinearSearch.train_epoch (checked under SpecTrain).

\* C1: trials are never cumulative.  Whenever a call of setup_new_step is
\* about to apply its training update, every parameter has the value of the
\* snapshot param_defaults and the call has applied no update yet; once the
\* update is applied, and when the call has returned, the call has applied
\* exactly one update.
C1_TrialsNeverCumulative ==
    /\ tpc = "train" => params = param_defaults /\ updates = 0
    /\ tpc = "measure" => updates = 1
    /\ (tpc = "minimize" /\ trials > 0) => updates = 1
    /\ tpc = "returned" => updates = 1

\* the second trial is about to update, the first one having returned
C1_Witness ==
    /\ tpc = "train"
    /\ trials >= 2
    /\ ~committing
    /\ new_step > 0
    /\ params = param_defaults

\* C2: when train_epoch has returned, the parameters are the snapshot with
\* exactly one training update at res.x applied, the shared step is res.x,
\* and the value returned is the one the commit call of setup_new_step
\* produced from the error it measured.
C2_CommitState ==
    tpc = "returned" =>
        /\ params = TrainUpdate(param_defaults, res_x)
        /\ shared_step = res_x
        /\ updates = 1
        /\ result = ret
        /\ ret = NanToInf(error)

\* returned after two trials, the commit at a step that moves the parameters
C2_Witness ==
    /\ tpc = "returned"
    /\ trials >= 2
    /\ res_x > 0
    /\ params # param_defaults

\* C3: every non-finite measured error (NaN, +infinity, -infinity) is returned
\* by setup_new_step as +infinity, so the value returned is finite or
\* +infinity.
C3_NonFiniteToPosInf ==
    (tpc \in {"minimize", "returned"} /\ (trials > 0 \/ tpc = "returned")) =>
        /\ ret \in Finite \cup {PosInf}
        /\ error \notin Finite => ret = PosInf

---------------------------------------------------------------------------
\* Properties of fmin_golden_search (checked under Spec).

ConfigInvalid ==
    \/ maxiter <= 0
    \/ minstep <= 0
    \/ maxstep <= 0
    \/ tol <= 0
    \/ minstep >= maxstep

FirstNonPositive ==
    IF maxiter <= 0 THEN "maxiter"
    ELSE IF minstep <= 0 THEN "minstep"
    ELSE IF maxstep <= 0 THEN "maxstep"
    ELSE IF tol <= 0 THEN "tol"
    ELSE "none"

\* C4: fmin_golden_search raises exactly when one of maxiter, minstep,
\* maxstep, tol is <= 0 or minstep >= maxstep; for a non-positive value the
\* error names the first such parameter in the order maxiter, minstep,
\* maxstep, tol; and when it raises, f has not been evaluated and neither
\* scan has run.
C4_ValidationExact ==
    /\ pc = "error" =>
         /\ ConfigInvalid
         /\ FirstNonPositive # "none" => err = FirstNonPositive
         /\ nevals = 0
         /\ n_loc = 0
         /\ n_gold = 0
    /\ pc \in {"locate", "golden", "done"} => ~ConfigInvalid /\ err = "none"

\* raised with two offending parameters, the first of them named
C4_Witness ==
    /\ pc = "error"
    /\ maxiter > 0
    /\ minstep <= 0
    /\ maxstep > 0
    /\ tol <= 0
    /\ err = "minstep"

\* C5: in every iteration of interval_location the running step stays within
\* [minstep, maxstep], and so does the value returned.
C5_StepWithinRange ==
    /\ pc = "locate" => minstep <= step /\ step <= maxstep
    /\ pc \in {"golden", "done"} => minstep <= bound /\ bound <= maxstep

\* the doubling was capped: maxstep returned, not a doubling of minstep
C5_Witness ==
    /\ pc = "golden"
    /\ bound = maxstep
    /\ 2 * minstep > maxstep
    /\ n_loc >= 2

\* f is finite and never increases from a reachable step to a larger one
NonIncreasing ==
    /\ \A s \in Grid(minstep, maxstep) : f.tab[s] \in Finite
    /\ \A s, t \in Grid(minstep, maxstep) : s < t => f.tab[t] <= f.tab[s]

\* f increases from every reachable step to every larger one
StrictlyIncreasing ==
    \A s, t \in Grid(minstep, maxstep) : s < t => FLt(f.tab[s], f.tab[t])

\* C6: when f is flat or non-increasing on [minstep, maxstep],
\* interval_location returns exactly maxstep, whatever maxiter >= 1.  Stated
\* here for finite outputs and for the calls whose maxiter leaves room for
\* every doubling from minstep to maxstep and one iteration more; the claim
\* covers every maxiter >= 1.
C6_NonIncreasingGivesMaxstep ==
    (/\ pc \in {"golden", "done"}
     /\ NonIncreasing
     /\ maxiter >= Cardinality(Grid(minstep, maxstep))) => bound = maxstep

\* C8: when f is strictly increasing on [minstep, maxstep] and maxiter >= 2,
\* interval_location stops at its second evaluation of f and returns a value
\* no larger than 2 * minstep and no larger than maxstep.
C8_IncreaseDetectedAtOnce ==
    (pc \in {"golden", "done"} /\ StrictlyIncreasing /\ maxiter >= 2) =>
        /\ n_loc = 2
        /\ stop_loc
        /\ bound <= 2 * minstep
        /\ bound <= maxstep

\* stopped after two evaluations with iterations and larger steps left
C8_Witness ==
    /\ pc = "golden"
    /\ StrictlyIncreasing
    /\ maxiter >= 3
    /\ maxstep > 2 * minstep
    /\ n_loc = 2
    /\ bound = 2 * minstep

\* the counters of a valid call stay within maxiter
C9_Bounded ==
    pc \in {"locate", "golden", "done"} =>
        /\ n_loc <= maxiter
        /\ n_gold <= maxiter
        /\ nevals = n_loc + 2 * n_gold
        /\ err = "none"

\* an upper bound of the number of steps the call has left
Remaining ==
    CASE pc = "start" -> IF ConfigInvalid THEN 1 ELSE 2 * maxiter + 3
      [] pc = "locate" -> 2 * maxiter + 2 - n_loc
      [] pc = "golden" -> maxiter + 1 - n_gold
      [] OTHER -> 0

\* a scan that has used up maxiter without its stop rule firing returns:
\* the routine can take its return step, and the call has steps left
C9_ReturnsOnExhaustion ==
    /\ Remaining >= 0
    /\ (pc = "locate" /\ n_loc = maxiter /\ ~stop_loc) =>
           ENABLED interval_location
    /\ (pc = "golden" /\ n_gold = maxiter /\ ~stop_gold) =>
           ENABLED golden_search
    /\ pc = "error" => ConfigInvalid

\* every step uses up one of the steps left, and each routine returns the
\* estimate its scan holds when it ends
C9_Step ==
    /\ Remaining' < Remaining
    /\ (pc = "locate" /\ pc' = "golden") => bound' = step
    /\ (pc = "golden" /\ pc' = "done") => best_step' = Half(Add(a, b))

\* C9: with a valid configuration fmin_golden_search terminates and returns
\* without raising, whatever f: interval_location runs at most maxiter
\* iterations (one evaluation of f each), golden_search at most maxiter
\* iterations (two evaluations each), and each returns its current estimate
\* (the last step, the midpoint of the current bracket).  Termination: every
\* step decreases Remaining, which is never negative, so a call takes at most
\* 2 * maxiter + 3 steps; a scan that has run out of iterations returns.
C9_Terminates ==
    /\ []C9_Bounded
    /\ []C9_ReturnsOnExhaustion
    /\ [][C9_Step]_vars

\* both scans ran maxiter iterations without their stop rule firing
C9_Witness ==
    /\ pc = "done"
    /\ maxiter >= 2
    /\ n_loc = maxiter
    /\ ~stop_loc
    /\ n_gold = maxiter
    /\ ~stop_gold

\* the step returned lies in [0, bound] and bound <= maxstep
C10_ResultInBracket ==
    pc = "done" =>
        /\ Le(Num(0), best_step)
        /\ Le(best_step, Num(bound))
        /\ bound <= maxstep

\* an iteration of golden_search leaves a bracket inside the previous one
C10_Nested ==
    (pc = "golden" /\ pc' = "golden") =>
        /\ Le(a, a')
        /\ Le(b', b)
        /\ Le(a', b')

\* C10: the step fmin_golden_search returns lies in [0, B], B <= maxstep the
\* value interval_location returned (minstep is no lower bound of it, the
\* bracket starting at 0), and every bracket of golden_search is contained in
\* the previous one.
C10_ResultRange == []C10_ResultInBracket /\ [][C10_Nested]_vars

\* a step below minstep is returned
C10_Witness ==
    /\ pc = "done"
    /\ Lt(best_step, Num(minstep))
    /\ n_gold >= 2

---------------------------------------------------------------------------
\* Properties of golden_search on a convex objective with minimizer f.m
\* (checked under SpecGolden).

\* |best_step - m|
Distance == Abs(Sub(best_step, Num(f.m)))

\* C7 as claimed: when the stop rule |c - d| < tol has fired, the value
\* returned is within tol of the minimizer m (stated for m strictly inside
\* the starting bracket, the reading of "inside [0, maxstep]" that claims
\* least).
C7_WithinTol ==
    (pc = "done" /\ stop_gold /\ 0 < f.m /\ f.m < maxstep) =>
        Lt(Distance, Num(tol))

\* C7 as amended: when the stop rule has fired, the final bracket contains m
\* and the value returned is within ((sqrt(5) + 2) / 2) * tol of m, that is
\* 2 * |best_step - m| < (3 + 2 * golden_ratio) * tol.
C7_WithinBracketHalf ==
    (pc = "done" /\ stop_gold) =>
        /\ Le(a, Num(f.m))
        /\ Le(Num(f.m), b)
        /\ Lt(Times(2, Distance), Times(tol, <<3, 2>>))

\* stopped by the rule after several iterations, farther than tol from m
C7_Witness ==
    /\ pc = "done"
    /\ stop_gold
    /\ n_gold >= 2
    /\ n_gold < maxiter
    /\ 0 < f.m
    /\ f.m < maxstep
    /\ ~Lt(Distance, Num(tol))

====
